---- MODULE Spec2Model ----
(***************************************************************************)
(* Real-time tone synthesis of the audio notebook: the sounddevice         *)
(* callback built by generate_callback, the parameter queue by which the   *)
(* main thread posts chord codes, and the two streaming cells that create  *)
(* the callback and open the output stream.                                *)
(*                                                                         *)
(* Frequencies are integers in hundredths of a hertz (261.63 Hz = 26163).  *)
(* A sample is kept symbolically: the sequence of sine terms added into    *)
(* it, each term naming its amplitude, frequency and time (n / rate).      *)
(* outdata has one channel, as both cells open the stream with channels=1. *)
(***************************************************************************)
EXTENDS Integers, Sequences, FiniteSets, TLC

(* ---------------------------------------------------------------- bounds *)
\* Codes posted per stream, callback invocations per stream, and the largest
\* buffer length the driver requests.
MaxPosts == 2
MaxBuffers == 3
MaxFrames == 2
\* For the synthesis taken alone: the longest frequency set and the largest
\* amplitude (in tenths) a callback is created with.
MaxFreqs == 3
MaxAmp == 3

(* ------------------------------------------------------- program constants *)
\* sampling_rate = 44100
sampling_rate == 44100
\* amplitude=0.2 of both generate_callback calls, in tenths
amplitude == 2
\* freqs=[440] of the cell without a queue, in hundredths of a hertz
freqs_a440 == <<44000>>

\* The rows of df_notes (notes.csv) the chord table uses, label -> frequency.
df_notes ==
    ("A2" :> 11000)
    @@ ("B2" :> 12347)
    @@ ("Bb2" :> 11654)
    @@ ("E2" :> 8241)
    @@ ("G2" :> 9800)
    @@ ("A3" :> 22000)
    @@ ("Ab3" :> 20765)
    @@ ("B3" :> 24694)
    @@ ("Bb3" :> 23308)
    @@ ("C3" :> 13081)
    @@ ("D3" :> 14683)
    @@ ("E3" :> 16481)
    @@ ("Eb3" :> 15556)
    @@ ("F3" :> 17461)
    @@ ("F#3" :> 18500)
    @@ ("G3" :> 19600)
    @@ ("G#3" :> 20765)
    @@ ("A4" :> 44000)
    @@ ("Ab4" :> 41530)
    @@ ("C4" :> 26163)
    @@ ("C#4" :> 27718)
    @@ ("D4" :> 29366)
    @@ ("D#4" :> 31113)
    @@ ("E4" :> 32963)
    @@ ("Eb4" :> 31113)
    @@ ("F4" :> 34923)
    @@ ("F#4" :> 36999)

\* chords_dict as first written: chord code -> note labels.
chord_labels ==
    ("C" :> <<"C3", "E3", "G3", "C4", "E4">>)
    @@ ("Cm" :> <<"C3", "Eb3", "G3", "C4", "Eb4">>)
    @@ ("D" :> <<"D3", "F#3", "A3", "D4", "F#4">>)
    @@ ("Dm" :> <<"D3", "F3", "A3", "D4", "F4">>)
    @@ ("E" :> <<"E2", "B2", "G#3", "B3", "E4">>)
    @@ ("Em" :> <<"E2", "B2", "G3", "B3", "E4">>)
    @@ ("F" :> <<"F3", "A3", "C4", "F4", "A4">>)
    @@ ("Fm" :> <<"F3", "Ab3", "C4", "F4", "Ab4">>)
    @@ ("G" :> <<"G2", "B2", "D3", "G3", "B3">>)
    @@ ("Gm" :> <<"G2", "Bb2", "D3", "G3", "Bb3">>)
    @@ ("A" :> <<"A2", "E3", "A3", "C#4", "A4">>)
    @@ ("Am" :> <<"A2", "E3", "A3", "C4", "A4">>)
    @@ ("B" :> <<"B2", "F#3", "B3", "D#4", "F#4">>)
    @@ ("Bm" :> <<"B2", "F#3", "B3", "D4", "F#4">>)

\* note2freq(note): df_notes.loc[octave, note]
note2freq(note) == df_notes[note]

\* chords_dict = {k: list(map(note2freq, code)) for k, code in chords_dict.items()}
chords_dict ==
    [c \in DOMAIN chord_labels |->
        [j \in 1..Len(chord_labels[c]) |-> note2freq(chord_labels[c][j])]]

\* What the user types at input(): chord codes, a code that is no key of
\* chords_dict, and the three inputs that leave the loop.
StopInputs == {"", "q", "Q"}
Inputs == {"Am", "Em", "X"} \cup StopInputs

\* The status flags the driver passes: empty (falsy) or an underflow.
StatusFlags == {"", "output underflow"}

\* Buffer lengths the driver requests.
FrameCounts == 1..MaxFrames

\* No fade call at hand.
NoFade == [fn |-> "none", arg |-> <<>>, duration |-> 0, rate |-> 0, mode |-> "",
           outcome |-> "none", message |-> "", result |-> <<>>, caller |-> <<>>,
           alias |-> FALSE]

\* No create_checkerboard_image call at hand.
NoBoard == [width |-> 0, height |-> 0, tile_size |-> 0, rotation |-> 0,
            outcome |-> "none", image |-> <<>>, shape |-> <<0, 0>>]

\* The crossfade cells not run.
NoCrossfade == [t_note |-> 0, t_fade |-> 0, stage |-> "none",
                chord1 |-> [len |-> 0, parts |-> <<>>],
                chord2 |-> [len |-> 0, parts |-> <<>>],
                chord_sequence |-> [len |-> 0, parts |-> <<>>],
                n_total |-> 0, i_start |-> 0, outcome |-> "none", line |-> 0,
                chord_sequence_crossfaded |-> [len |-> 0, parts |-> <<>>]]

\* What the driver's buffer holds before the callback writes it.
StaleSample == <<[amp |-> 0, freq |-> 0, time |-> <<0, 0>>]>>

(* ----------------------------------------------------------------- state *)
VARIABLES
    active,         \* the output stream is open (Active) or not (Idle)
    hasQueue,       \* the callback was created with a queue (queue is not None)
    amp,            \* the closure's amplitude, in tenths
    table,          \* chords_dict as the kernel holds it: chord code -> frequencies
    fade,           \* the fade_in / fade_out call at hand: its arguments and outcome
    board,          \* the create_checkerboard_image call at hand
    xfade,          \* the crossfade cells: their settings, chords and buffer
    queue,          \* the closure's queue: pending codes, oldest first (hasQueue)
    freqs,          \* the closure's freqs: the active frequency set
    counter,        \* callback.counter: the phase counter
    pc,             \* where the callback thread stands: idle, check, get, time, zero, loop
    frames,         \* the invocation's buffer length
    status,         \* the invocation's status flag
    code,           \* the code the invocation took from the queue, "" before
    t,              \* the invocation's time vector, <<sample index, rate>> per sample
    outdata,        \* the driver's buffer, one sample per frame
    k,              \* frequencies of freqs already added into outdata by the for loop
    stderr,         \* the status lines the latest invocation printed
    posted,         \* history: every code put on the queue since it was created
    consumed,       \* history: every code got from the queue since it was created
    buffers,        \* history: invocations begun on this stream
    snap,           \* history: counter, freqs and queue when the invocation began
    qAtCheck,       \* history: the queue when the invocation tested queue.empty()
    emitted,        \* history: samples handed back to the driver on this stream
    prevLast,       \* history: sample index of the last sample of the previous buffer
    playedBefore    \* history: an earlier stream was stopped with its counter above 0

vars == <<active, hasQueue, amp, table, fade, board, xfade, queue, freqs, counter, pc, frames, status, code, t, outdata,
          k, stderr, posted, consumed, buffers, snap, qAtCheck, emitted, prevLast,
          playedBefore>>

streamVars == <<active, hasQueue, amp, table, queue, freqs, counter, pc, frames,
                status, code, t, outdata, k, stderr, posted, consumed, buffers, snap,
                qAtCheck, emitted, prevLast, playedBefore>>
callbackLocals == <<frames, status, code, t, outdata, k>>
history == <<posted, consumed, buffers, snap, qAtCheck, emitted, prevLast,
             playedBefore>>

Snapshot == [counter |-> counter, freqs |-> freqs, queue |-> queue,
             consumed |-> Len(consumed)]

(* ------------------------------------------------------ queue.Queue, pure *)
\* queue.empty()
queue_empty(q) == q = <<>>

\* queue.put(x) with the newest entry replacing what is pending
queue_put_overwrite(q, x) == <<x>>
\* queue.put(x) on an unbounded Queue(): append at the tail
queue_put(q, x) == Append(q, x)

\* queue.get() handing out the newest entry
queue_get_newest(q) == [item |-> q[Len(q)], rest |-> SubSeq(q, 1, Len(q) - 1)]
\* queue.get() on a non-empty queue: the oldest entry, and what stays queued
queue_get(q) == [item |-> Head(q), rest |-> Tail(q)]

(* ------------------------------------------------- the callback's formulas *)
\* the test asking for a backlog: if queue is not None and queue.qsize() > 1
has_new_chord_backlog(withQueue, q) == withQueue /\ Len(q) > 1
\* the test without its emptiness part: if queue is not None
has_new_chord_unchecked(withQueue, q) == withQueue
\* if queue is not None and not queue.empty()
has_new_chord(withQueue, q) == withQueue /\ ~queue_empty(q)

\* chords_dict.get(code, chords_dict["C"]): an unknown code brings back C major
chord_lookup_or_default(tbl, c, current) ==
    IF c \in DOMAIN tbl THEN tbl[c] ELSE tbl["C"]
\* chords_dict.get(code, []): an unknown code silences the callback
chord_lookup_or_empty(tbl, c, current) ==
    IF c \in DOMAIN tbl THEN tbl[c] ELSE <<>>
\* chords_dict.get(code, freqs)
chord_lookup(tbl, c, current) ==
    IF c \in DOMAIN tbl THEN tbl[c] ELSE current

\* np.arange(frames) / sampling_rate: every buffer starts again at time 0
time_vector_from_zero(c, n, rate) == [i \in 1..n |-> <<i - 1, rate>>]
\* t = (callback.counter + np.arange(frames)) / sampling_rate
time_vector(c, n, rate) == [i \in 1..n |-> <<c + (i - 1), rate>>]

\* amplitude * np.sin(2 * np.pi * f * t), for one sample
sine_term(a, f, time) == [amp |-> a, freq |-> f, time |-> time]

\* The buffer taken as it comes from the driver, not cleared.
zeroed_skipped(out) == out
\* outdata[:] = 0
zeroed(out) == [i \in 1..Len(out) |-> <<>>]

\* outdata[:] = amplitude * np.sin(2 * np.pi * f * t): assigned, not added
add_sine_assign(out, a, f, tv) ==
    [i \in 1..Len(out) |-> <<sine_term(a, f, tv[i])>>]
\* outdata[:] += amplitude * np.sin(2 * np.pi * f * t)
add_sine(out, a, f, tv) ==
    [i \in 1..Len(out) |-> Append(out[i], sine_term(a, f, tv[i]))]

\* callback.counter += 1: one per buffer instead of one per sample
next_counter_per_buffer(c, n) == c + 1
\* callback.counter += frames
next_counter(c, n) == c + n

(* ------------------------------------------------------------------ Init *)
\* The kernel before either streaming cell has run: no stream, no callback.
StreamIdle ==
    /\ active = FALSE
    /\ hasQueue = FALSE
    /\ queue = <<>>
    /\ freqs = <<>>
    /\ counter = 0
    /\ pc = "idle"
    /\ frames = 0
    /\ status = ""
    /\ code = ""
    /\ t = <<>>
    /\ outdata = <<>>
    /\ k = 0
    /\ stderr = <<>>
    /\ posted = <<>>
    /\ consumed = <<>>
    /\ buffers = 0
    /\ snap = [counter |-> 0, freqs |-> <<>>, queue |-> <<>>, consumed |-> 0]
    /\ qAtCheck = <<>>
    /\ emitted = 0
    /\ prevLast = -1
    /\ playedBefore = FALSE
    /\ amp = 0
    /\ table = chords_dict

Init ==
    /\ StreamIdle
    /\ fade = NoFade
    /\ board = NoBoard
    /\ xfade = NoCrossfade

(* ------------------------------------------------------ generate_callback *)
\* A callback whose counter is not initialised anew but carried over.
generate_callback_keep_counter(a, fs, withQueue) ==
    /\ amp' = a
    /\ freqs' = fs
    /\ hasQueue' = withQueue
    /\ counter' = counter
\* generate_callback(amplitude, freqs, sampling_rate, queue): a new closure
\* over freqs and queue, with callback.counter = 0.
generate_callback(a, fs, withQueue) ==
    /\ amp' = a
    /\ freqs' = fs
    /\ hasQueue' = withQueue
    /\ counter' = 0

\* with sd.OutputStream(channels=1, callback=callback, ...): the stream opens
\* and the driver starts to call the new callback.
OpenStream ==
    /\ ~active
    /\ active' = TRUE
    /\ buffers' = 0
    /\ emitted' = 0
    /\ prevLast' = -1
    /\ stderr' = <<>>
    /\ frames' = 0
    /\ status' = ""
    /\ code' = ""
    /\ t' = <<>>
    /\ outdata' = <<>>
    /\ k' = 0
    /\ qAtCheck' = <<>>
    /\ UNCHANGED <<pc, table, fade, board, xfade, playedBefore>>

\* The cell without a queue: callback = generate_callback(0.2, [440], rate),
\* then the stream.
RunCellNoQueue ==
    /\ OpenStream
    /\ generate_callback(amplitude, freqs_a440, FALSE)
    /\ queue' = <<>>
    /\ posted' = <<>>
    /\ consumed' = <<>>
    /\ snap' = [counter |-> counter', freqs |-> freqs', queue |-> <<>>,
                consumed |-> 0]

\* The cell with the Queue() made once for all its runs: what was pending
\* when the last stream stopped is pending again.
RunCellWithSharedQueue ==
    /\ OpenStream
    /\ queue' = queue
    /\ posted' = queue
    /\ consumed' = <<>>
    /\ generate_callback(amplitude, table["C"], TRUE)
    /\ snap' = [counter |-> counter', freqs |-> freqs', queue |-> queue,
                consumed |-> 0]
\* The cell with a queue: queue = Queue(), callback = generate_callback(0.2,
\* chords_dict["C"], rate, queue), then the stream.
RunCellWithQueue ==
    /\ OpenStream
    /\ queue' = <<>>
    /\ posted' = <<>>
    /\ consumed' = <<>>
    /\ generate_callback(amplitude, table["C"], TRUE)
    /\ snap' = [counter |-> counter', freqs |-> freqs', queue |-> <<>>,
                consumed |-> 0]

(* ------------------------------------------------------------ the stream *)
\* The stream marked closed at once, with the callback possibly still running.
CloseStreamAbrupt ==
    /\ active
    /\ active' = FALSE
    /\ playedBefore' = (playedBefore \/ counter > 0)
    /\ UNCHANGED <<hasQueue, amp, table, fade, board, xfade, queue, freqs, counter, pc,
                   callbackLocals, stderr, posted, consumed, buffers, snap,
                   qAtCheck, emitted, prevLast>>
\* The with block is left: the stream is stopped and closed, which returns
\* once the callback is not running.
CloseStream ==
    /\ active
    /\ pc = "idle"
    /\ active' = FALSE
    /\ playedBefore' = (playedBefore \/ counter > 0)
    /\ UNCHANGED <<hasQueue, amp, table, fade, board, xfade, queue, freqs, counter, pc, callbackLocals, stderr,
                   posted, consumed, buffers, snap, qAtCheck, emitted, prevLast>>

\* The cell without a queue: input() returns on any line.
PressEnter ==
    /\ ~hasQueue
    /\ CloseStream

\* except KeyboardInterrupt: pass, in either cell.
KeyboardInterrupt == CloseStream

\* The input loop resolving the code itself and writing the frequency set
\* the callback reads, instead of passing the code through the queue.
ControllerInputDirect(ret) ==
    /\ active
    /\ hasQueue
    /\ IF ret \in StopInputs
       THEN CloseStream
       ELSE /\ Len(posted) < MaxPosts
            /\ freqs' = chord_lookup(table, ret, freqs)
            /\ posted' = Append(posted, ret)
            /\ consumed' = Append(consumed, ret)
            /\ UNCHANGED <<active, hasQueue, amp, table, fade, board, xfade, queue, counter, pc,
                           callbackLocals, stderr, buffers, snap, qAtCheck,
                           emitted, prevLast, playedBefore>>
\* The input loop on a Queue(maxsize=1): put waits while a code is pending.
ControllerInputBounded(ret) ==
    /\ active
    /\ hasQueue
    /\ IF ret \in StopInputs
       THEN CloseStream
       ELSE /\ Len(posted) < MaxPosts
            /\ Len(queue) < 1
            /\ queue' = queue_put(queue, ret)
            /\ posted' = Append(posted, ret)
            /\ UNCHANGED <<active, hasQueue, amp, table, fade, board, xfade, freqs, counter, pc,
                           callbackLocals, stderr, consumed, buffers, snap,
                           qAtCheck, emitted, prevLast, playedBefore>>
\* The input loop of the cell with a queue: ret = input(); q, Q or an empty
\* line breaks out of the loop, anything else is put on the queue.
ControllerInput(ret) ==
    /\ active
    /\ hasQueue
    /\ IF ret \in StopInputs
       THEN CloseStream
       ELSE /\ Len(posted) < MaxPosts
            /\ queue' = queue_put(queue, ret)
            /\ posted' = Append(posted, ret)
            /\ UNCHANGED <<active, hasQueue, amp, table, fade, board, xfade, freqs, counter, pc, callbackLocals,
                           stderr, consumed, buffers, snap, qAtCheck, emitted,
                           prevLast, playedBefore>>

(* ---------------------------------------------------------- the callback *)
\* The driver calls callback(outdata, frames, time, status) for one buffer:
\* if status: print(status, file=sys.stderr)
CallbackBegin(n, st) ==
    /\ active
    /\ pc = "idle"
    /\ buffers < MaxBuffers
    /\ frames' = n
    /\ status' = st
    /\ code' = ""
    /\ stderr' = IF st # "" THEN <<st>> ELSE <<>>
    /\ outdata' = [i \in 1..n |-> StaleSample]
    /\ t' = <<>>
    /\ k' = 0
    /\ buffers' = buffers + 1
    /\ snap' = Snapshot
    /\ qAtCheck' = <<>>
    /\ pc' = "check"
    /\ UNCHANGED <<active, hasQueue, amp, table, fade, board, xfade, queue, freqs, counter, posted, consumed,
                   emitted, prevLast, playedBefore>>

\* if queue is not None and not queue.empty():
CheckQueue ==
    /\ pc = "check"
    /\ qAtCheck' = queue
    /\ pc' = IF has_new_chord(hasQueue, queue) THEN "get" ELSE "time"
    /\ UNCHANGED <<active, hasQueue, amp, table, fade, board, xfade, queue, freqs, counter, callbackLocals, stderr,
                   posted, consumed, buffers, snap, emitted, prevLast, playedBefore>>

\* code = queue.get(), which waits while the queue is empty
GetCode ==
    /\ pc = "get"
    /\ ~queue_empty(queue)
    /\ LET g == queue_get(queue)
       IN  /\ queue' = g.rest
           /\ consumed' = Append(consumed, g.item)
           /\ code' = g.item
    /\ pc' = "lookup"
    /\ UNCHANGED <<active, hasQueue, amp, table, fade, board, xfade, freqs, counter,
                   frames, status, t, outdata, k, stderr, posted, buffers, snap,
                   qAtCheck, emitted, prevLast, playedBefore>>

\* freqs[:] = chords_dict.get(code, freqs): the new values are written into
\* the list freqs refers to, which is the chord table's entry it came from.
LookupChordInPlace ==
    /\ pc = "lookup"
    /\ LET new == chord_lookup(table, code, freqs)
       IN  /\ freqs' = new
           /\ table' = [c \in DOMAIN table |->
                            IF table[c] = freqs THEN new ELSE table[c]]
    /\ pc' = "time"
    /\ UNCHANGED <<active, hasQueue, amp, fade, board, xfade, queue, counter,
                   callbackLocals, stderr, posted, consumed, buffers, snap,
                   qAtCheck, emitted, prevLast, playedBefore>>
\* freqs = chords_dict[code]: a code that is no key raises KeyError, which
\* ends the invocation without a buffer and the stream with it.
LookupChordStrict ==
    /\ pc = "lookup"
    /\ IF code \in DOMAIN table
       THEN freqs' = table[code] /\ pc' = "time" /\ active' = active
       ELSE freqs' = freqs /\ pc' = "idle" /\ active' = FALSE
    /\ UNCHANGED <<hasQueue, amp, table, fade, board, xfade, queue, counter,
                   callbackLocals, stderr, posted, consumed, buffers, snap,
                   qAtCheck, emitted, prevLast, playedBefore>>
\* The chord change that also starts the phase anew: callback.counter = 0.
LookupChordResetPhase ==
    /\ pc = "lookup"
    /\ freqs' = chord_lookup(table, code, freqs)
    /\ counter' = 0
    /\ pc' = "time"
    /\ UNCHANGED <<active, hasQueue, amp, table, fade, board, xfade, queue,
                   callbackLocals, stderr, posted, consumed, buffers, snap,
                   qAtCheck, emitted, prevLast, playedBefore>>
\* freqs = chords_dict.get(code, freqs)
LookupChord ==
    /\ pc = "lookup"
    /\ freqs' = chord_lookup(table, code, freqs)
    /\ pc' = "time"
    /\ UNCHANGED <<active, hasQueue, amp, table, fade, board, xfade, queue, counter,
                   callbackLocals, stderr, posted, consumed, buffers, snap,
                   qAtCheck, emitted, prevLast, playedBefore>>

\* t = (callback.counter + np.arange(frames)) / sampling_rate; t.reshape(-1, 1)
MakeTime ==
    /\ pc = "time"
    /\ t' = time_vector(counter, frames, sampling_rate)
    /\ pc' = "zero"
    /\ UNCHANGED <<active, hasQueue, amp, table, fade, board, xfade, queue, freqs, counter, frames, status, code,
                   outdata, k, stderr, history>>

\* outdata[:] = 0, and the for loop over freqs is entered
ZeroBuffer ==
    /\ pc = "zero"
    /\ outdata' = zeroed(outdata)
    /\ k' = 0
    /\ pc' = "loop"
    /\ UNCHANGED <<active, hasQueue, amp, table, fade, board, xfade, queue, freqs, counter, frames, status, code, t,
                   stderr, history>>

\* The loop with the queue looked at in every pass instead of once per buffer.
AddToneRepolling ==
    /\ pc = "loop"
    /\ k < Len(freqs)
    /\ LET new == has_new_chord(hasQueue, queue)
           fs  == IF new THEN chord_lookup(table, Head(queue), freqs) ELSE freqs
       IN  /\ freqs' = fs
           /\ queue' = IF new THEN Tail(queue) ELSE queue
           /\ consumed' = IF new THEN Append(consumed, Head(queue)) ELSE consumed
           /\ outdata' = add_sine(outdata, amp, fs[k + 1], t)
    /\ k' = k + 1
    /\ UNCHANGED <<active, hasQueue, amp, table, fade, board, xfade, counter, pc, frames, status, code, t, stderr,
                   posted, buffers, snap, qAtCheck, emitted, prevLast,
                   playedBefore>>
\* One pass of: for f in freqs: outdata[:] += amplitude * sin(2 pi f t)
AddTone ==
    /\ pc = "loop"
    /\ k < Len(freqs)
    /\ outdata' = add_sine(outdata, amp, freqs[k + 1], t)
    /\ k' = k + 1
    /\ UNCHANGED <<active, hasQueue, amp, table, fade, board, xfade, queue, freqs, counter, pc, frames, status, code, t,
                   stderr, history>>

\* A flagged buffer taken as lost and to be produced again: the counter
\* stays where it was.
AdvanceCounterRetryOnStatus ==
    /\ pc = "loop"
    /\ k >= Len(freqs)
    /\ counter' = IF status # "" THEN counter ELSE next_counter(counter, frames)
    /\ emitted' = emitted + Len(outdata)
    /\ prevLast' = IF t = <<>> THEN prevLast ELSE t[Len(t)][1]
    /\ pc' = "idle"
    /\ UNCHANGED <<active, hasQueue, amp, table, fade, board, xfade, queue, freqs,
                   callbackLocals, stderr, posted, consumed, buffers, snap,
                   qAtCheck, playedBefore>>
\* callback.counter += frames indented into the queue's if block: the counter
\* of a callback without a queue stays where it was.
AdvanceCounterWithQueueOnly ==
    /\ pc = "loop"
    /\ k >= Len(freqs)
    /\ counter' = IF hasQueue THEN next_counter(counter, frames) ELSE counter
    /\ emitted' = emitted + Len(outdata)
    /\ prevLast' = IF t = <<>> THEN prevLast ELSE t[Len(t)][1]
    /\ pc' = "idle"
    /\ UNCHANGED <<active, hasQueue, amp, table, fade, board, xfade, queue, freqs,
                   callbackLocals, stderr, posted, consumed, buffers, snap,
                   qAtCheck, playedBefore>>
\* The loop is done: callback.counter += frames, and the callback returns.
AdvanceCounter ==
    /\ pc = "loop"
    /\ k >= Len(freqs)
    /\ counter' = next_counter(counter, frames)
    /\ emitted' = emitted + Len(outdata)
    /\ prevLast' = IF t = <<>> THEN prevLast ELSE t[Len(t)][1]
    /\ pc' = "idle"
    /\ UNCHANGED <<active, hasQueue, amp, table, fade, board, xfade, queue, freqs, callbackLocals, stderr, posted,
                   consumed, buffers, snap, qAtCheck, playedBefore>>

Callback ==
    \/ \E n \in FrameCounts, st \in StatusFlags : CallbackBegin(n, st)
    \/ CheckQueue
    \/ GetCode
    \/ LookupChord
    \/ MakeTime
    \/ ZeroBuffer
    \/ AddTone
    \/ AdvanceCounter

Controller ==
    \/ RunCellNoQueue
    \/ RunCellWithQueue
    \/ PressEnter
    \/ KeyboardInterrupt
    \/ \E ret \in Inputs : ControllerInput(ret)

Next == Callback \/ Controller

Spec == Init /\ [][Next]_vars

\* The driver keeps requesting buffers while the stream is open: a step of the
\* callback that stays possible is taken. The controller may wait forever.
\* Here the cell with a queue is the only cell run.
QueueCell ==
    \/ RunCellWithQueue
    \/ KeyboardInterrupt
    \/ \E ret \in Inputs : ControllerInput(ret)

\* Here the driver asks for one frame per buffer.
ShortCallback ==
    \/ \E st \in StatusFlags : CallbackBegin(1, st)
    \/ CheckQueue
    \/ GetCode
    \/ LookupChord
    \/ MakeTime
    \/ ZeroBuffer
    \/ AddTone
    \/ AdvanceCounter

LiveNext == ShortCallback \/ QueueCell

LiveSpec == Init /\ [][LiveNext]_vars /\ WF_vars(ShortCallback)

(* ------------------------------------------- the synthesis, for any inputs *)
\* The frequencies a callback may be given, in hundredths of a hertz, and
\* every list of at most MaxFreqs of them, repeats and the empty list included.
SynthFreqs == {11000, 22000}
FreqSets == UNION {[1..n -> SynthFreqs] : n \in 0..MaxFreqs}
Amplitudes == 0..MaxAmp

\* callback = generate_callback(A, F, sampling_rate) for any amplitude A and
\* frequency list F, and the stream opened on it.
SynthInit ==
    /\ active = TRUE
    /\ hasQueue = FALSE
    /\ amp \in Amplitudes
    /\ freqs \in FreqSets
    /\ table = chords_dict
    /\ fade = NoFade
    /\ board = NoBoard
    /\ xfade = NoCrossfade
    /\ queue = <<>>
    /\ counter = 0
    /\ pc = "idle"
    /\ frames = 0
    /\ status = ""
    /\ code = ""
    /\ t = <<>>
    /\ outdata = <<>>
    /\ k = 0
    /\ stderr = <<>>
    /\ posted = <<>>
    /\ consumed = <<>>
    /\ buffers = 0
    /\ snap = [counter |-> 0, freqs |-> freqs, queue |-> <<>>, consumed |-> 0]
    /\ qAtCheck = <<>>
    /\ emitted = 0
    /\ prevLast = -1
    /\ playedBefore = FALSE

SynthNext ==
    \/ \E n \in FrameCounts, st \in StatusFlags : CallbackBegin(n, st)
    \/ CheckQueue
    \/ MakeTime
    \/ ZeroBuffer
    \/ AddTone
    \/ AdvanceCounter

SynthSpec == SynthInit /\ [][SynthNext]_vars

(* ------------------------------------------------- fade_in and fade_out *)
\* An array is a sequence of samples; a sample is its value as given and the
\* fade factors it was multiplied by, each <<curve, i, n>>: the curve at
\* point i of the n points of np.linspace(0, duration, n, endpoint=False).
\* Durations are in tenths of a second.
MaxData == 2
MaxDuration == 3
FadeRates == {5, 10}
FadeModes == {"linear", "sine", "sine-squared", "cubic"}
ValidModes == {"linear", "sine", "sine-squared"}
InvalidModeMessage == "Invalid mode. Options: 'linear', 'sine', 'sine-squared'"
UnboundFadeMessage ==
    "cannot access local variable 'fade' where it is not associated with a value"
BroadcastMessage == "operands could not be broadcast together"
OutputShapeMessage == "non-broadcastable output operand"

Sample(x) == [x |-> x, gains |-> <<>>]
Arrays ==
    UNION {[1..n -> {Sample(1), Sample(2)}] : n \in 0..MaxData}

Min(a, b) == IF a <= b THEN a ELSE b

\* int(sampling_rate * duration)
fade_len(rate, duration) == (rate * duration) \div 10

\* data[i] *= g
scaled(sample, g) == [sample EXCEPT !.gains = Append(@, g)]

\* The fade curve of fade_in by mode: t / duration, sin(2 pi t 0.25 / duration)
\* or its square; no curve for another mode.
fade_in_curve(mode, n) ==
    CASE mode = "linear"       -> [i \in 1..n |-> <<"t/d", i - 1, n>>]
      [] mode = "sine"         -> [i \in 1..n |-> <<"sin", i - 1, n>>]
      [] mode = "sine-squared" -> [i \in 1..n |-> <<"sin^2", i - 1, n>>]
      [] OTHER                 -> <<>>

\* The fade curve of fade_out by mode: 1 - t / duration,
\* cos(2 pi t 0.25 / duration) or its square; no curve for another mode.
fade_out_curve(mode, n) ==
    CASE mode = "linear"       -> [i \in 1..n |-> <<"1-t/d", i - 1, n>>]
      [] mode = "sine"         -> [i \in 1..n |-> <<"cos", i - 1, n>>]
      [] mode = "sine-squared" -> [i \in 1..n |-> <<"cos^2", i - 1, n>>]
      [] OTHER                 -> <<>>

\* How a call ends: the exception raised or the array returned, the caller's
\* array after the call, and whether the returned array is the caller's own.
Raised(kind, msg, data) ==
    [outcome |-> kind, message |-> msg, result |-> <<>>, caller |-> data,
     alias |-> FALSE]
Returns(result, data) ==
    [outcome |-> "returned", message |-> "", result |-> result, caller |-> data,
     alias |-> FALSE]

\* fade_in without data.copy(): the fade is applied to the caller's array.
fade_in_in_place(data, duration, rate, mode) ==
    IF mode \notin ValidModes
    THEN Raised("ValueError", InvalidModeMessage, data)
    ELSE LET fd  == fade_in_curve(mode, fade_len(rate, duration))
             n   == Min(Len(fd), Len(data))
             out == [i \in 1..Len(data) |->
                        IF i <= n THEN scaled(data[i], fd[i]) ELSE data[i]]
         IN  [outcome |-> "returned", message |-> "", result |-> out,
              caller |-> out, alias |-> TRUE]

\* fade_in(data, duration, sampling_rate, mode): the else branch raises for a
\* mode that is none of the three; otherwise a copy of data with its first
\* n = min(len(fade), len(data)) samples multiplied by the curve.
fade_in(data, duration, rate, mode) ==
    IF mode \notin ValidModes
    THEN Raised("ValueError", InvalidModeMessage, data)
    ELSE LET fd == fade_in_curve(mode, fade_len(rate, duration))
             n  == Min(Len(fd), Len(data))
         IN  Returns([i \in 1..Len(data) |->
                         IF i <= n THEN scaled(data[i], fd[i]) ELSE data[i]],
                     data)

\* fade_out(data, duration, sampling_rate, mode): no else branch, so for a
\* mode that is none of the three fade is unbound when len(fade) reads it,
\* after data.copy(). Otherwise data[-n:] *= fade[-n:] on the copy, with
\* n = min(len(fade), len(data)); for n = 0 both slices are the whole arrays,
\* which numpy multiplies in place only if fade broadcasts to data's shape.
fade_out(data, duration, rate, mode) ==
    IF mode \notin ValidModes
    THEN Raised("UnboundLocalError", UnboundFadeMessage, data)
    ELSE LET fd == fade_out_curve(mode, fade_len(rate, duration))
             ld == Len(data)
             lf == Len(fd)
             n  == Min(lf, ld)
         IN  IF n > 0
             THEN Returns([i \in 1..ld |->
                              IF i > ld - n
                              THEN scaled(data[i], fd[lf - ld + i])
                              ELSE data[i]],
                          data)
             ELSE IF ld = 0 /\ lf <= 1
                  THEN Returns(data, data)
                  ELSE IF ld = 1 /\ lf = 0
                       THEN Raised("ValueError", OutputShapeMessage, data)
                       ELSE Raised("ValueError", BroadcastMessage, data)

\* A call of one of the two functions, for any array, duration, rate and mode.
FadeCall(fn, data, duration, rate, mode) ==
    [fn |-> fn, arg |-> data, duration |-> duration, rate |-> rate, mode |-> mode,
     outcome |-> "pending", message |-> "", result |-> <<>>, caller |-> data,
     alias |-> FALSE]

FadeInit ==
    /\ StreamIdle
    /\ fade \in {FadeCall(fn, data, d, r, m) :
                    fn \in {"fade_in", "fade_out"}, data \in Arrays,
                    d \in 0..MaxDuration, r \in FadeRates, m \in FadeModes}
    /\ board = NoBoard
    /\ xfade = NoCrossfade

Outcome(call, r) ==
    [call EXCEPT !.outcome = r.outcome, !.message = r.message,
                 !.result = r.result, !.caller = r.caller, !.alias = r.alias]

CallFadeIn ==
    /\ fade.fn = "fade_in"
    /\ fade.outcome = "pending"
    /\ fade' = Outcome(fade, fade_in(fade.arg, fade.duration, fade.rate, fade.mode))
    /\ UNCHANGED <<streamVars, board, xfade>>

CallFadeOut ==
    /\ fade.fn = "fade_out"
    /\ fade.outcome = "pending"
    /\ fade' = Outcome(fade, fade_out(fade.arg, fade.duration, fade.rate, fade.mode))
    /\ UNCHANGED <<streamVars, board, xfade>>

FadeNext == CallFadeIn \/ CallFadeOut

FadeSpec == FadeInit /\ [][FadeNext]_vars

(* ------------------------------------- create_checkerboard_image, pure *)
\* The largest width, height and tile size drawn.
MaxSide == 4
Sides == 1..MaxSide

\* An array of two dimensions: its shape (rows, columns) and its rows.
Image(rows, cols, px) == [shape |-> <<rows, cols>>, pixels |-> px]

\* tiles_x = width // tile_size + 1, tiles_y = height // tile_size + 1
tiles(side, tile_size) == side \div tile_size + 1

\* np.vstack([np.hstack([tile_white, tile_black]),
\*            np.hstack([tile_black, tile_white])]) * 255
checker_tile(tile_size) ==
    Image(2 * tile_size, 2 * tile_size,
          [r \in 1..(2 * tile_size) |->
              [c \in 1..(2 * tile_size) |->
                  IF (r - 1) \div tile_size = (c - 1) \div tile_size
                  THEN 255 ELSE 0]])

\* np.tile(a, (reps_y, reps_x)): a repeated reps_y times down and reps_x
\* times across; no rows or no columns for a count of zero.
np_tile(a, reps_y, reps_x) ==
    LET rows == a.shape[1] * reps_y
        cols == a.shape[2] * reps_x
    IN  Image(rows, cols,
              [r \in 1..rows |->
                  [c \in 1..cols |->
                      a.pixels[((r - 1) % a.shape[1]) + 1]
                              [((c - 1) % a.shape[2]) + 1]]])

\* a[:height, :width]: the slice ends at the array's edge if that is nearer.
crop(a, height, width) ==
    LET rows == Min(height, a.shape[1])
        cols == Min(width, a.shape[2])
    IN  Image(rows, cols,
              [r \in 1..rows |-> [c \in 1..cols |-> a.pixels[r][c]]])

\* create_checkerboard_image(width, height, tile_size) with rotation = 0, its
\* default: the 2x2 tile repeated tiles_y // 2 by tiles_x // 2 times, cropped.
create_checkerboard_image(width, height, tile_size) ==
    LET tiles_x      == tiles(width, tile_size)
        tiles_y      == tiles(height, tile_size)
        checkerboard == np_tile(checker_tile(tile_size),
                                tiles_y \div 2, tiles_x \div 2)
    IN  crop(checkerboard, height, width)

BoardCall(width, height, tile_size) ==
    [width |-> width, height |-> height, tile_size |-> tile_size,
     rotation |-> 0, outcome |-> "pending", image |-> <<>>, shape |-> <<0, 0>>]

BoardInit ==
    /\ StreamIdle
    /\ fade = NoFade
    /\ xfade = NoCrossfade
    /\ board \in {BoardCall(w, h, ts) : w \in Sides, h \in Sides, ts \in Sides}

CallCreateCheckerboard ==
    /\ board.outcome = "pending"
    /\ LET img == create_checkerboard_image(board.width, board.height,
                                            board.tile_size)
       IN  board' = [board EXCEPT !.outcome = "returned",
                                  !.image = img.pixels, !.shape = img.shape]
    /\ UNCHANGED <<streamVars, fade, xfade>>

BoardNext == CallCreateCheckerboard

BoardSpec == BoardInit /\ [][BoardNext]_vars

(* ------------------------------------------------- the crossfade cells *)
\* Durations are in eighths of a second, which the floating-point sums and
\* products of the cells and their int() represent exactly.
\* t_note = 2 and t_fade = 0.25, as the first cell binds them.
t_note == 16
t_fade == 2
\* The longest note time the statements about every fade time range over.
MaxNote == 16

\* The sampling_rate that sine_wave, chord, fade_in and fade_out take when
\* the caller passes none, as the crossfade cell does.
default_sampling_rate == 44100

\* int(rate * duration)
samples(rate, duration) == (rate * duration) \div 8

\* The arrays of these cells are too long to keep sample by sample: an array
\* is its length and the parts it is made of, each part a record.
Signal(n, parts) == [len |-> n, parts |-> parts]

\* chord(chords_dict[name], duration=...): int(44100 * duration) samples of
\* the chord's summed sine waves, at the default rate.
chord(name, duration) ==
    Signal(samples(default_sampling_rate, duration), <<[chord |-> name]>>)

\* fade_in(data, duration=..., mode=...) at the default rate, on an array
\* given by its length: the first n = min(len(fade), len(data)) samples faded.
fade_in_signal(data, duration, mode) ==
    LET lf == samples(default_sampling_rate, duration)
        n  == Min(lf, data.len)
    IN  Returns(Signal(data.len,
                       Append(data.parts,
                              [fade |-> "fade_in", mode |-> mode, n |-> n])),
                data)

\* fade_out(data, duration=..., mode=...) at the default rate, on an array
\* given by its length: the last n samples faded; for n = 0 the slices are
\* the whole arrays and the in-place multiply raises unless fade broadcasts
\* to data's shape.
fade_out_signal(data, duration, mode) ==
    LET lf == samples(default_sampling_rate, duration)
        n  == Min(lf, data.len)
    IN  IF n > 0
        THEN Returns(Signal(data.len,
                            Append(data.parts,
                                   [fade |-> "fade_out", mode |-> mode, n |-> n])),
                     data)
        ELSE IF data.len = 0 /\ lf <= 1
             THEN Returns(data, data)
             ELSE IF data.len = 1 /\ lf = 0
                  THEN Raised("ValueError", OutputShapeMessage, data)
                  ELSE Raised("ValueError", BroadcastMessage, data)

\* np.zeros(n)
zeros(n) == Signal(n, <<>>)

\* np.concatenate(arrays): the arrays of the list joined end to end; its
\* length is the sum of their lengths.
RECURSIVE total_len(_)
total_len(arrays) ==
    IF arrays = <<>> THEN 0 ELSE Head(arrays).len + total_len(Tail(arrays))

concatenate(arrays) == Signal(total_len(arrays), <<[concatenated |-> arrays]>>)

\* The sequence of four chords of 1, 1, 1 and 2 seconds, concatenated; the
\* name chord_sequence is bound to it from then on.
chord_sequence ==
    concatenate(<<chord("Am", 8), chord("Em", 8), chord("C", 8), chord("Am", 16)>>)

\* a[lo:hi] += b for one-dimensional arrays and indices that are not
\* negative, a[lo:] being a[lo:len(a)]; b must have the slice's length or a
\* single sample, which is then added to every sample of the slice.
add_into(a, lo, hi, b) ==
    LET first == Min(lo, a.len)
        last  == Min(hi, a.len)
        n     == IF last > first THEN last - first ELSE 0
    IN  IF b.len = n \/ b.len = 1
        THEN [ok |-> TRUE,
              array |-> Signal(a.len,
                               Append(a.parts,
                                      [from |-> first, count |-> n, added |-> b]))]
        ELSE [ok |-> FALSE, array |-> a]

\* n_total = int(t_note*2*sampling_rate), with the global sampling_rate
n_total(tn) == samples(sampling_rate, tn * 2)

\* i_start = int(sampling_rate*t_note): the second chord begins where the
\* first note ends, without the overlap.
i_start_at_note_end(tn, tf) == samples(sampling_rate, tn)
\* i_start = int(sampling_rate*(t_note-t_fade)), with the global sampling_rate
i_start(tn, tf) == samples(sampling_rate, tn - tf)

\* The kernel before the crossfade cells run: t_note and t_fade are not yet
\* bound, chord_sequence is the sequence of four chords played earlier.
CrossfadeInit ==
    /\ StreamIdle
    /\ fade = NoFade
    /\ board = NoBoard
    /\ xfade = [NoCrossfade EXCEPT !.stage = "set",
                                   !.chord_sequence = chord_sequence]

\* The cell that makes two chords of t_note + t_fade seconds, fades the first
\* out and the second in with mode "sine", and concatenates them; chord and
\* the fades are called without a sampling rate. A fade that raises ends the
\* cell with the names bound as they were by then.
MakeChords ==
    /\ xfade.stage = "set"
    /\ LET c1  == chord("Am", t_note + t_fade)
           c2  == chord("Em", t_note + t_fade)
           out == fade_out_signal(c1, t_fade, "sine")
           inn == fade_in_signal(c2, t_fade, "sine")
       IN  IF out.outcome # "returned"
           THEN xfade' = [xfade EXCEPT !.stage = "chords",
                                       !.t_note = t_note, !.t_fade = t_fade,
                                       !.chord1 = c1, !.chord2 = c2,
                                       !.outcome = out.outcome, !.line = 698]
           ELSE xfade' = [xfade EXCEPT
                             !.stage = "chords",
                             !.t_note = t_note, !.t_fade = t_fade,
                             !.chord1 = out.result, !.chord2 = inn.result,
                             !.chord_sequence = concatenate(<<out.result, inn.result>>),
                             !.outcome = "done"]
    /\ UNCHANGED <<streamVars, fade, board>>

\* The cell that computes n_total and i_start from the global sampling_rate
\* and adds the two chords into a buffer of n_total zeros; an addition whose
\* lengths differ raises and ends the cell.
AssembleCrossfade ==
    /\ xfade.stage = "chords"
    /\ LET n == n_total(xfade.t_note)
           i == i_start(xfade.t_note, xfade.t_fade)
           first   == add_into(zeros(n), 0, xfade.chord1.len, xfade.chord1)
           second  == add_into(first.array, i, n, xfade.chord2)
       IN  xfade' = [xfade EXCEPT
                        !.stage = "assembled",
                        !.n_total = n,
                        !.i_start = i,
                        !.chord_sequence_crossfaded =
                            IF ~first.ok THEN zeros(n)
                            ELSE IF ~second.ok THEN first.array
                            ELSE second.array,
                        !.outcome = IF first.ok /\ second.ok
                                    THEN "done" ELSE "ValueError",
                        !.line = IF ~first.ok THEN 725
                                 ELSE IF ~second.ok THEN 726 ELSE 0]
    /\ UNCHANGED <<streamVars, fade, board>>

CrossfadeNext == MakeChords \/ AssembleCrossfade

\* The notebook run from top to bottom: the crossfade cells, then the
\* streaming cells.
NotebookNext ==
    \/ CrossfadeNext
    \/ xfade.stage = "assembled" /\ Next

NotebookSpec == CrossfadeInit /\ [][NotebookNext]_vars

(* ------------------------------------------------ what the claims speak of *)
\* The latest invocation has returned.
Returned == pc = "idle" /\ buffers > 0
\* The invocation is past its queue handling (the if block).
PastConsume == pc \in {"time", "zero", "loop"} \/ Returned
\* The codes the latest invocation took from the queue.
Taken == SubSeq(consumed, snap.consumed + 1, Len(consumed))
IsPrefix(a, b) == Len(a) <= Len(b) /\ SubSeq(b, 1, Len(a)) = a
\* The buffer of n samples that frequency set fs gives from sample index c on.
ExpectedBuffer(fs, c, n) ==
    [i \in 1..n |->
        [j \in 1..Len(fs) |->
            sine_term(amp, fs[j], <<c + (i - 1), sampling_rate>>)]]

(* C1: an invocation takes at most one code; if the queue was non-empty at
   its test it takes exactly the oldest pending code and leaves the rest
   queued; if the queue was empty it takes nothing and the frequency set is
   the one the invocation began with. *)
C1_AtMostOneOldest ==
    /\ Len(Taken) <= 1
    /\ pc \in {"check", "get"} => Taken = <<>>
    /\ pc = "lookup" =>
          /\ Taken = <<Head(qAtCheck)>>
          /\ code = Head(qAtCheck)
          /\ freqs = snap.freqs
    /\ PastConsume =>
          IF qAtCheck # <<>>
          THEN Taken = <<Head(qAtCheck)>> /\ IsPrefix(Tail(qAtCheck), queue)
          ELSE Taken = <<>> /\ freqs = snap.freqs
C1_Witness ==
    /\ Returned
    /\ Len(qAtCheck) = 2
    /\ qAtCheck[1] # qAtCheck[2]
    /\ Taken = <<qAtCheck[1]>>
    /\ queue = <<qAtCheck[2]>>

(* C2, as stated: with "Am" then "Em" pending when the next invocation
   begins, the frequency set after that invocation is that of "Em". *)
C2_LatestVisible ==
    (Returned /\ snap.queue = <<"Am", "Em">>) => freqs = chords_dict["Em"]
(* C2, amended: with "Am" then "Em" pending when the next invocation begins,
   that invocation takes "Am", the frequency set after it is that of "Am",
   and "Em" is still pending at the head of the queue. *)
C2_OldestVisible ==
    (Returned /\ snap.queue = <<"Am", "Em">>) =>
        /\ Taken = <<"Am">>
        /\ freqs = chords_dict["Am"]
        /\ queue # <<>>
        /\ Head(queue) = "Em"
C2_Witness ==
    /\ Returned
    /\ buffers = 1
    /\ snap.queue = <<"Am", "Em">>
    /\ freqs = chords_dict["Am"]
    /\ queue = <<"Em">>

(* C3: the codes consumed so far followed by the codes still queued are
   exactly the codes posted so far, in posting order: consumption follows
   posting order and no post removes or replaces a pending code. *)
C3_StrictFifo ==
    /\ consumed \o queue = posted
    /\ IsPrefix(consumed, posted)
C3_Witness ==
    /\ Len(consumed) = 1
    /\ Len(queue) = 1
    /\ posted = <<"Am", "Em">>
    /\ pc = "loop"

(* C4: whenever the callback stands at queue.get(), the queue holds a code
   and the get can be taken at once, also with posts in between. *)
C4_GetNeverWaits ==
    pc = "get" => (~queue_empty(queue) /\ ENABLED GetCode)
C4_Witness ==
    /\ pc = "get"
    /\ Len(qAtCheck) = 1
    /\ Len(queue) = 2

(* C5: an invocation swaps the frequency set at most once and before any
   sample is written; while and after the loop every sample holds exactly
   the terms of the first k frequencies of the one active set, whatever is
   posted meanwhile. *)
C5_SingleFrequencySet ==
    /\ Len(Taken) <= 1
    /\ pc \in {"check", "get", "lookup", "time"} =>
          \A i \in 1..Len(outdata) : outdata[i] = StaleSample
    /\ (pc = "loop" \/ Returned) =>
          /\ k <= Len(freqs)
          /\ Len(outdata) = frames
          /\ \A i \in 1..frames :
                outdata[i] = [j \in 1..k |-> sine_term(amp, freqs[j], t[i])]
    /\ Returned => outdata = ExpectedBuffer(freqs, snap.counter, frames)
C5_Witness ==
    /\ pc = "loop"
    /\ k = Len(freqs)
    /\ frames = 2
    /\ Taken = <<"Am">>
    /\ freqs # snap.freqs
    /\ qAtCheck = <<"Am">>
    /\ queue = <<"Em">>

(* C6: when the invocation took a code that is no key of chords_dict, the
   frequency set is the one the invocation began with, and the returned
   buffer is the one that set gives. *)
C6_UnknownCodeKeepsSet ==
    (PastConsume /\ Taken # <<>> /\ Taken[1] \notin DOMAIN chords_dict) =>
        /\ freqs = snap.freqs
        /\ Returned => outdata = ExpectedBuffer(snap.freqs, snap.counter, frames)
C6_Witness ==
    /\ Returned
    /\ Taken = <<"X">>
    /\ snap.freqs = chords_dict["Am"]
    /\ freqs = chords_dict["Am"]
    /\ outdata = ExpectedBuffer(chords_dict["Am"], snap.counter, frames)

(* C7: when an invocation has returned, the counter is its value at the
   begin of the invocation plus the buffer length. *)
C7_AdvanceByFrames ==
    Returned => counter = snap.counter + frames
C7_Witness ==
    /\ Returned
    /\ buffers = 2
    /\ frames = 2
    /\ snap.counter = 1
    /\ counter = 3
    /\ status # ""
    /\ Taken = <<"X">>

(* C8: the counter is never negative, never below its value at the begin of
   the invocation, and at every buffer boundary it is the number of samples
   handed back to the driver since the callback was created. *)
C8_CounterCountsSamples ==
    /\ counter \in Nat
    /\ counter >= snap.counter
    /\ pc = "idle" => counter = emitted
C8_Witness ==
    /\ active
    /\ Returned
    /\ buffers = 3
    /\ counter = emitted
    /\ counter = 5
    /\ Taken = <<"Em">>
    /\ freqs # snap.freqs

(* C9: sample i of a buffer is evaluated at index counter + i, and the first
   index of a buffer is one more than the last index of the buffer before
   (0 for the first buffer of a stream). *)
C9_ContiguousIndices ==
    pc \in {"zero", "loop"} =>
        /\ Len(t) = frames
        /\ \A i \in 1..Len(t) : t[i] = <<snap.counter + (i - 1), sampling_rate>>
        /\ t[1][1] = prevLast + 1
        /\ \A i \in 1..(Len(t) - 1) : t[i + 1][1] = t[i][1] + 1
        /\ pc = "loop" =>
              \A i \in 1..Len(outdata) : \A j \in 1..Len(outdata[i]) :
                  outdata[i][j].time = t[i]
C9_Witness ==
    /\ pc = "loop"
    /\ k = Len(freqs)
    /\ buffers = 3
    /\ frames = 2
    /\ prevLast = 2
    /\ t[1][1] = 3
    /\ t[2][1] = 4

(* C10: a stream that has produced no buffer yet has counter 0, and its
   first buffer is computed from counter 0, also when an earlier stream had
   advanced its counter before it was stopped. *)
C10_RestartFromZero ==
    /\ buffers = 0 => counter = 0
    /\ buffers = 1 =>
          /\ snap.counter = 0
          /\ t # <<>> => t[1][1] = 0
C10_Witness ==
    /\ playedBefore
    /\ active
    /\ buffers = 1
    /\ pc = "loop"
    /\ k = Len(freqs)
    /\ t[1][1] = 0

(* C11: a stopped stream consumes nothing: while no stream is open the
   callback is not running and queue, consumed codes and frequency set stay
   as they are; the next stream starts with an empty queue, nothing consumed
   and the frequency set its cell gives, so a code pending at the stop is
   never consumed and never reaches a later stream. *)
C11_PendingDiscarded ==
    /\ [](~active => pc = "idle")
    /\ [][~active =>
            IF active'
            THEN /\ queue' = <<>>
                 /\ posted' = <<>>
                 /\ consumed' = <<>>
                 /\ freqs' \in {freqs_a440, table["C"]}
            ELSE UNCHANGED <<queue, posted, consumed, freqs>>]_vars
C11_Witness ==
    /\ ~active
    /\ Returned
    /\ Len(queue) = 2
    /\ freqs = table["C"]

(* C12: the stream is Idle or Active; it becomes Active only from Idle and
   then with counter 0 and no buffer begun; it becomes Idle only by the stop,
   taken while the callback is not running and changing nothing else; the
   callback stands inside an invocation, begins a buffer, adds a tone,
   consumes a code or advances the counter only while the stream is and
   stays Active. *)
C12_IdleActive ==
    /\ [](active \in BOOLEAN /\ (pc # "idle" => active))
    /\ [][
          /\ (~active /\ active') =>
                (counter' = 0 /\ buffers' = 0 /\ pc' = "idle")
          /\ (active /\ ~active') =>
                (pc = "idle" /\ UNCHANGED <<counter, freqs, queue, consumed,
                                            outdata, buffers, pc>>)
          /\ (\/ pc' # pc
              \/ buffers' > buffers
              \/ k' > k
              \/ Len(consumed') > Len(consumed)
              \/ counter' > counter) => (active /\ active')
       ]_vars
C12_Witness ==
    /\ active
    /\ playedBefore
    /\ Returned
    /\ counter > 0

(* C13: an invocation that took a code that is no key of the chord table
   has removed it from the queue, goes on to the synthesis, and returns with
   every sample of the buffer written from the frequency set, the counter
   advanced by the buffer length and the stream still Active. *)
C13_UnknownCodeNoError ==
    /\ []((Taken # <<>> /\ Taken[1] \notin DOMAIN table) =>
            /\ pc # "idle" => active
            /\ Len(consumed) = snap.consumed + 1
            /\ consumed \o queue = posted
            /\ Returned =>
                  /\ Len(outdata) = frames
                  /\ \A i \in 1..frames :
                        /\ Len(outdata[i]) = Len(freqs)
                        /\ \A j \in 1..Len(outdata[i]) : outdata[i][j].freq > 0
                  /\ counter = snap.counter + frames)
    /\ [][
          /\ (pc = "get" /\ pc' # pc) => (pc' = "lookup" /\ active')
          /\ (pc = "lookup" /\ pc' # pc) => (pc' = "time" /\ active')
          /\ (pc = "loop" /\ pc' = "idle") => active'
       ]_vars
C13_Witness ==
    /\ active
    /\ Returned
    /\ Taken = <<"X">>
    /\ queue = <<"Am">>
    /\ frames = 2
    /\ counter = snap.counter + 2
    /\ Len(outdata[2]) = Len(freqs)

(* C14: the status flag decides only what is printed: what an invocation
   leaves behind (frequency set, codes taken, buffer, counter) is given by
   the state it began in, the queue it saw and the buffer length alone, the
   same with and without a flag, and after it the driver can ask for the
   next buffer. *)
C14_StatusOnlyLogged ==
    /\ stderr = IF status # "" THEN <<status>> ELSE <<>>
    /\ pc # "idle" => active
    /\ Returned =>
          /\ freqs = IF qAtCheck # <<>>
                     THEN chord_lookup(table, Head(qAtCheck), snap.freqs)
                     ELSE snap.freqs
          /\ Len(consumed) = snap.consumed + (IF qAtCheck # <<>> THEN 1 ELSE 0)
          /\ outdata = ExpectedBuffer(freqs, snap.counter, frames)
          /\ counter = snap.counter + frames
          /\ (active /\ buffers < MaxBuffers) =>
                \A n \in FrameCounts, st \in StatusFlags :
                    ENABLED CallbackBegin(n, st)
C14_Witness ==
    /\ active
    /\ Returned
    /\ status = "output underflow"
    /\ stderr = <<"output underflow">>
    /\ Taken = <<"Am">>
    /\ freqs = table["Am"]
    /\ frames = 2
    /\ counter = snap.counter + 2

\* How often x occurs in the sequence s.
Occurrences(s, x) == Cardinality({j \in 1..Len(s) : s[j] = x})
\* The frequencies of the terms of sample s, in the order they were added.
TermFreqs(s) == [j \in 1..Len(s) |-> s[j].freq]

(* C15: for every frequency list F and amplitude A the callback is created
   with, every sample of a returned buffer holds, for each frequency of F,
   as many terms as F holds that frequency, each with amplitude A at the
   sample's time index, and no other term. *)
C15_Superposition ==
    Returned =>
        /\ Len(outdata) = frames
        /\ \A i \in 1..Len(outdata) :
              /\ \A j \in 1..Len(outdata[i]) :
                    /\ outdata[i][j].amp = amp
                    /\ outdata[i][j].time = <<snap.counter + (i - 1), sampling_rate>>
                    /\ \E m \in 1..Len(freqs) : freqs[m] = outdata[i][j].freq
              /\ \A m \in 1..Len(freqs) :
                    Occurrences(TermFreqs(outdata[i]), freqs[m])
                        = Occurrences(freqs, freqs[m])
C15_Witness ==
    /\ Returned
    /\ amp = 3
    /\ freqs = <<11000, 11000, 22000>>
    /\ frames = 2
    /\ buffers = 2
    /\ TermFreqs(outdata[2]) = <<11000, 11000, 22000>>

(* C16: once the buffer is cleared, and when the invocation has returned,
   the buffer has the requested length and no sample holds anything of what
   the driver's buffer held before: every position holds only terms the
   invocation added. *)
C16_WholeBufferWritten ==
    /\ pc # "idle" => Len(outdata) = frames
    /\ (pc = "loop" \/ Returned) =>
          /\ Len(outdata) = frames
          /\ \A i \in 1..Len(outdata) :
                /\ outdata[i] # StaleSample
                /\ \A j \in 1..Len(outdata[i]) :
                      /\ outdata[i][j] # StaleSample[1]
                      /\ outdata[i][j].time = t[i]
    /\ Returned => \A i \in 1..Len(outdata) : Len(outdata[i]) = Len(freqs)
C16_Witness ==
    /\ Returned
    /\ buffers = 2
    /\ frames = 2
    /\ Len(outdata) = 2
    /\ Len(outdata[1]) = 5
    /\ Len(outdata[2]) = 5

\* The codes the input loop puts on the queue.
PostInputs == Inputs \ StopInputs

(* C17: while the stream of the cell with a queue is open (and fewer than
   MaxPosts codes were posted), every code can be posted at once, whatever
   is pending and wherever the callback stands; a post adds exactly its code
   at the tail of the queue and leaves what was queued in place. *)
C17_PostNeverBlocked ==
    /\ []((active /\ hasQueue /\ Len(posted) < MaxPosts) =>
            \A ret \in PostInputs : ENABLED ControllerInput(ret))
    /\ [][Len(posted') > Len(posted) =>
            /\ Len(posted') = Len(posted) + 1
            /\ queue' = Append(queue, posted'[Len(posted')])
       ]_vars
C17_Witness ==
    /\ active
    /\ pc = "loop"
    /\ k = 2
    /\ queue = <<"Am", "X">>
    /\ posted = <<"Am", "X">>

(* C18: while a stream is open, a post leaves counter and frequency set as
   they are; the frequency set changes only in the callback's step that
   looks the taken code up, the counter only in the callback's last step,
   and neither changes when the stream is stopped. *)
C18_ProducerOwnsState ==
    [][
      /\ (active /\ active' /\ posted' # posted) => UNCHANGED <<counter, freqs>>
      /\ (active /\ active' /\ freqs' # freqs) =>
            (pc = "lookup" /\ UNCHANGED <<posted, counter>>)
      /\ (active /\ active' /\ counter' # counter) =>
            (pc = "loop" /\ pc' = "idle" /\ UNCHANGED <<posted, freqs>>)
      /\ (active /\ ~active') => UNCHANGED <<counter, freqs>>
    ]_vars
C18_Witness ==
    /\ active
    /\ Returned
    /\ buffers = 1
    /\ counter = 2
    /\ freqs = table["Am"]
    /\ posted = <<"Am", "Em">>
    /\ queue = <<"Em">>
    /\ snap.queue = <<"Am">>

(* C19: the chord table is never changed, and the frequency set of a
   callback is always a whole list: the one its cell created it with
   ([440] without a queue, the entry of "C" with one) or one entry of the
   chord table; it is empty only before the first callback is created. *)
C19_WholeSetSwap ==
    /\ table = chords_dict
    /\ IF freqs = <<>>
       THEN ~active /\ buffers = 0 /\ ~playedBefore
       ELSE freqs \in {freqs_a440} \cup {table[c] : c \in DOMAIN table}
    /\ (freqs # <<>> /\ ~hasQueue) => freqs = freqs_a440
    /\ (freqs # <<>> /\ hasQueue /\ consumed = <<>>) => freqs = table["C"]
C19_Witness ==
    /\ Returned
    /\ consumed = <<"Am", "Em">>
    /\ snap.freqs = chords_dict["Am"]
    /\ freqs = chords_dict["Em"]
    /\ table = chords_dict

(* C20: a call of fade_in or fade_out with a mode that is none of "linear",
   "sine", "sine-squared" ends with the invalid-mode ValueError that names
   the three options, returns nothing and leaves the caller's array as it
   was. *)
C20_InvalidModeFailsFast ==
    (fade.outcome # "pending" /\ fade.mode \notin ValidModes) =>
        /\ fade.outcome = "ValueError"
        /\ fade.message = InvalidModeMessage
        /\ fade.result = <<>>
        /\ fade.caller = fade.arg

(* C21: fade_in and fade_out leave the array passed in as it was, whatever
   the arguments; a call that returns hands back another array, not the
   caller's, of the same length as the input. *)
C21_InputUntouched ==
    fade.outcome \notin {"none", "pending"} =>
        /\ fade.caller = fade.arg
        /\ fade.outcome = "returned" =>
               /\ ~fade.alias
               /\ Len(fade.result) = Len(fade.arg)

\* fade_in has returned an array that differs from the two-sample input.
C21_Witness ==
    /\ fade.fn = "fade_in"
    /\ fade.outcome = "returned"
    /\ Len(fade.arg) = 2
    /\ fade.result # fade.arg
    /\ fade.caller = fade.arg

(* C22: create_checkerboard_image(width, height, tile_size) with rotation 0
   returns an image of shape (height, width), for all positive width, height
   and tile_size. *)
C22_ShapeIsHeightByWidth ==
    board.outcome = "returned" => board.shape = <<board.height, board.width>>

\* The i-th posted code is pending on an open stream between two invocations,
\* with at least as many buffers to come as codes pending up to it.
PendingWithBuffersLeft(i) ==
    /\ active
    /\ pc = "idle"
    /\ Len(posted) >= i
    /\ Len(consumed) < i
    /\ MaxBuffers - buffers >= i - Len(consumed)

(* C23: while the driver keeps requesting buffers and the stream stays open,
   every posted code is consumed in the end; an invocation that begins with
   codes pending takes exactly one, the oldest, so that k pending codes are
   consumed by the next k invocations. *)
C23_FairDrain ==
    /\ [](Returned /\ snap.queue # <<>> =>
            /\ Len(consumed) = snap.consumed + 1
            /\ Taken = <<Head(snap.queue)>>
            /\ IsPrefix(Tail(snap.queue), queue))
    /\ \A i \in 1..MaxPosts :
          PendingWithBuffersLeft(i) ~> (Len(consumed) >= i \/ ~active)

\* Two codes were posted and the first two invocations of the stream have
\* consumed one each, the second finding only the second code pending.
C23_Witness ==
    /\ Returned
    /\ active
    /\ buffers = 2
    /\ Len(posted) = 2
    /\ consumed = posted
    /\ snap.queue = <<posted[2]>>
    /\ snap.consumed = 1
    /\ queue = <<>>

\* The positions of the posted codes that are keys of the chord table.
KnownPosts == {i \in 1..Len(posted) : posted[i] \in DOMAIN chords_dict}
\* The set the callback was created with, by cell.
InitialSet == IF hasQueue THEN chords_dict["C"] ELSE freqs_a440
\* The entry of the latest posted code that is a key, or the initial set.
LatestKnownSet ==
    IF KnownPosts = {}
    THEN InitialSet
    ELSE chords_dict[posted[CHOOSE i \in KnownPosts : \A j \in KnownPosts : j <= i]]

(* C24: when an invocation has returned and the queue is empty, the frequency
   set is the chord-table entry of the latest posted code that is a key of
   the table, or the set the callback was created with if no such code was
   posted; codes that are no keys, posted before or after it, change
   nothing. *)
C24_SetAfterDraining ==
    (Returned /\ queue = <<>>) => freqs = LatestKnownSet

\* "Am" and then the unknown "X" were posted and both are consumed.
C24_Witness ==
    /\ Returned
    /\ queue = <<>>
    /\ posted = <<"Am", "X">>
    /\ consumed = posted
    /\ freqs = chords_dict["Am"]

\* The number of samples the fade of the call at hand has:
\* int(sampling_rate * duration).
FadeSamples == fade_len(fade.rate, fade.duration)
\* n = min(len(fade), len(data)) of the call at hand.
FadedCount == Min(FadeSamples, Len(fade.arg))

(* C25: with one of the three modes, fade_in returns the input with only its
   first n = min(fade length, data length) samples changed and fade_out with
   only its last n changed, every other sample as in the input, for every
   fade length and data length; for a fade of no samples the output is the
   input. *)
C25_OnlyFadedSamplesChange ==
    (fade.outcome \notin {"none", "pending"} /\ fade.mode \in ValidModes) =>
        /\ fade.outcome = "returned"
        /\ Len(fade.result) = Len(fade.arg)
        /\ \A i \in 1..Len(fade.arg) :
              \/ fade.result[i] = fade.arg[i]
              \/ fade.fn = "fade_in" /\ i <= FadedCount
              \/ fade.fn = "fade_out" /\ i > Len(fade.arg) - FadedCount
        /\ FadeSamples = 0 => fade.result = fade.arg

(* C26: the callback of the cell without a queue never takes a code and its
   frequency set stays the one given to generate_callback, [440], through
   every invocation, while each invocation advances the counter by its
   buffer length, so that the counter is the number of samples produced. *)
C26_NoQueueKeepsSet ==
    (~hasQueue /\ buffers > 0) =>
        /\ freqs = freqs_a440
        /\ snap.freqs = freqs_a440
        /\ pc \notin {"get", "lookup"}
        /\ code = ""
        /\ consumed = <<>>
        /\ Returned => (counter = snap.counter + frames /\ counter = emitted)

\* Two invocations of the callback without a queue, of one and two frames.
C26_Witness ==
    /\ ~hasQueue
    /\ Returned
    /\ buffers = 2
    /\ frames = 2
    /\ snap.counter = 1
    /\ counter = 3
    /\ freqs = freqs_a440

(* C27, as stated: the index arithmetic of the crossfade cell fits for every
   fade time up to the note time: with n_total, i_start and the chords'
   length computed as the cells compute them, the first chord is no longer
   than the buffer and the samples from i_start to the buffer's end are as
   many as the second chord has. *)
C27_FitsForEveryFadeTime ==
    xfade.stage = "assembled" =>
        \A tn \in 1..MaxNote :
            \A tf \in 0..tn :
                /\ chord("Am", tn + tf).len <= n_total(tn)
                /\ n_total(tn) - i_start(tn, tf) = chord("Em", tn + tf).len

(* C27, amended: with the note time 2 s and the fade time 0.25 s that the
   cell binds, the first chord is no longer than the buffer of n_total
   samples and the samples from i_start to the buffer's end are as many as
   the second chord has, so that both additions are made. *)
C27_CrossfadeFits ==
    xfade.stage = "assembled" =>
        /\ xfade.t_note = t_note
        /\ xfade.t_fade = t_fade
        /\ xfade.chord1.len <= xfade.n_total
        /\ xfade.n_total - xfade.i_start = xfade.chord2.len
        /\ xfade.outcome = "done"
        /\ xfade.chord_sequence_crossfaded.len = xfade.n_total
        /\ Len(xfade.chord_sequence_crossfaded.parts) = 2

\* Both cells have run: 99225 samples per chord in a buffer of 176400, the
\* second chord added from sample 77175.
C27_Witness ==
    /\ xfade.stage = "assembled"
    /\ xfade.outcome = "done"
    /\ xfade.n_total = 176400
    /\ xfade.i_start = 77175
    /\ xfade.chord1.len = 99225
    /\ xfade.chord2.len = 99225

====
